---- MODULE Spec2Model ----
(***************************************************************************)
(* Railvision (junction): the RailwayMap layer reconciliation, the         *)
(* Dashboard simulation tick, the Sandbox what-if run and the AI decision  *)
(* list, modelled as state machines.  Each component has its own           *)
(* specification (SpecMap, SpecMapRemount, SpecDashboard, SpecIndex,       *)
(* SpecSandbox, SpecSandboxFair, SpecDecisionHandlers, SpecPages); the     *)
(* variables of the other components rest.                                 *)
(***************************************************************************)
EXTENDS Integers, Sequences, FiniteSets, TLC

(***************************************************************************)
(* Bounds of the model.                                                    *)
(***************************************************************************)
\* user drags of map layers between two commits of RailwayMap
MaxDrags == 1

\* the Dashboard's trains jitter on the grid (0..MaxCoord) x (0..MaxCoord)
MaxCoord == 1

\* and their speeds stay within -MaxSpeed..MaxSpeed
MaxSpeed == 1

\* area requests of Index in flight at one time
MaxRequests == 3

\* maps one RailwayMap instance creates when its effects are run again
MaxMaps == 2

(***************************************************************************)
(* RailwayMap.tsx                                                          *)
(***************************************************************************)
VARIABLES
  phase,              \* "rendered" (first render, effects not yet run),
                      \* "mounted" or "unmounted"
  trains,             \* props.trains
  segments,           \* props.segments
  draggableMarkers,   \* props.draggableMarkers
  draggableSegments,  \* props.draggableSegments
  mapRef,             \* mapRef.current (NoMap = null)
  liveMaps,           \* Leaflet maps created and not yet removed
  mapsCreated,        \* number of L.map() calls of this component
  markersRef,         \* markersRef.current : train id -> layer handle
  segmentsRef,        \* segmentsRef.current : segment id -> layer handle
  segmentMarkersRef,  \* segmentMarkersRef.current : segment id -> <<h, h>>
  layers,             \* the Leaflet layer objects: handle -> layer
  view,               \* what the map view was last fitted to
  drags,              \* user drags since the last commit
  last                \* the step taken last

mapVars == <<phase, trains, segments, draggableMarkers,
             draggableSegments, mapRef, liveMaps, mapsCreated, markersRef,
             segmentsRef, segmentMarkersRef, layers, view, drags, last>>

(***************************************************************************)
(* Dashboard.tsx: the component's state and the prop Index passes          *)
(***************************************************************************)
VARIABLES
  dashTrains,         \* Dashboard: const [trains, setTrains]
  filteredProvided,   \* props.filteredTrains is not undefined
  filteredTrains      \* props.filteredTrains

\* Index.tsx and the area selector of RailwayMap
VARIABLES
  selectedArea,       \* const [selectedArea, setSelectedArea] of Index
  mapSelectedArea,    \* const [selectedArea, setSelectedArea] of RailwayMap
  areaRequests        \* the areas of the requests in flight, oldest first

indexVars == <<selectedArea, mapSelectedArea, areaRequests>>

dashVars == <<dashTrains, filteredProvided, filteredTrains, indexVars>>

(***************************************************************************)
(* Sandbox (part_000, 373-724)                                             *)
(***************************************************************************)
VARIABLES
  selectedScenario,   \* const [selectedScenario, setSelectedScenario]
  simulationRunning,  \* const [simulationRunning, setSimulationRunning]
  modifiedTrains,     \* const [modifiedTrains, setModifiedTrains]
  modifiedSegments,   \* const [modifiedSegments, setModifiedSegments]
  results,            \* const [results, setResults]
  evalRequests,       \* evaluation requests in flight, with their closures
  resetDone           \* history: resetSimulation ran and no run was started since

sandboxVars == <<selectedScenario, simulationRunning, modifiedTrains,
                 modifiedSegments, results, evalRequests, resetDone>>

(***************************************************************************)
(* AIDecisions (part_000, 10-303)                                          *)
(***************************************************************************)
VARIABLES
  decisions,          \* const [decisions, setDecisions]
  lastCall,           \* the handler called last, its argument and the list before
  page,               \* the page the router shows: "decisions" or "predictions"
  predictions,        \* const [predictions, setPredictions] (MLPredictions)
  loading,            \* const [loading, setLoading] of the page shown
  fetchPending,       \* the initial request of the page is in flight
  live,               \* history: key -> the last WebSocket update for it that
                      \* no user action has overridden
  loaded,             \* history: the list the initial request delivered
  rejectDialogOpen,   \* DecisionPanel: const [rejectDialogOpen, setRejectDialogOpen]
  selectedDecisionId, \* DecisionPanel: const [selectedDecisionId, ...]
  rejectionReason     \* DecisionPanel: const [rejectionReason, setRejectionReason]

dialogVars == <<rejectDialogOpen, selectedDecisionId, rejectionReason>>

pageVars == <<page, predictions, loading, fetchPending, live, loaded, dialogVars>>

decisionVars == <<decisions, lastCall, pageVars>>

vars == <<mapVars, dashVars, sandboxVars, decisionVars>>

NoMap == 0

\* the coordinates a position takes in the model (abstract [lat, lng] pairs)
Points == {1, 2}

TrainIds == {"12951", "16031"}

SegmentIds == {"seg-1", "seg-2"}

TrainStatuses == {"on-time", "delayed", "critical", "maintenance"}

SegmentStatuses == {"clear", "occupied", "maintenance", "blocked"}

\* the statuses the map props range over in the model
MapTrainStatuses == {"on-time", "critical"}

MapSegmentStatuses == {"clear", "blocked"}

statusColors ==
  [s \in TrainStatuses |->
     CASE s = "on-time" -> "#22c55e"
       [] s = "delayed" -> "#eab308"
       [] s = "critical" -> "#ef4444"
       [] s = "maintenance" -> "#8b5cf6"]

segmentColors ==
  [s \in SegmentStatuses |->
     CASE s = "clear" -> "#22c55e"
       [] s = "occupied" -> "#eab308"
       [] s = "maintenance" -> "#8b5cf6"
       [] s = "blocked" -> "#ef4444"]

\* the fields of a Train that RailwayMap draws
MapTrain == [id : TrainIds, position : Points, status : MapTrainStatuses]

MapSegment == [id : SegmentIds, start : Points, end : Points,
               status : MapSegmentStatuses]

\* lists of at most two entities with distinct ids, in the order of the mock data
MapTrainLists ==
  {<<>>} \cup {<<a>> : a \in MapTrain}
         \cup {<<a, b>> : <<a, b>> \in {p \in MapTrain \X MapTrain :
                                          p[1].id = "12951" /\ p[2].id = "16031"}}

MapSegmentLists ==
  {<<>>} \cup {<<a>> : a \in MapSegment}
         \cup {<<a, b>> : <<a, b>> \in {p \in MapSegment \X MapSegment :
                                          p[1].id = "seg-1" /\ p[2].id = "seg-2"}}

\* the props as first rendered from the mock data: every train on time at
\* point 1, every segment clear from point 1 to point 2
BaseTrains ==
  <<[id |-> "12951", position |-> 1, status |-> "on-time"],
    [id |-> "16031", position |-> 1, status |-> "on-time"]>>

BaseSegments ==
  <<[id |-> "seg-1", start |-> 1, end |-> 2, status |-> "clear"],
    [id |-> "seg-2", start |-> 1, end |-> 2, status |-> "clear"]>>

Ids(list) == {list[i].id : i \in 1..Len(list)}

EmptyRef == [x \in {} |-> 0]

\* a fresh object identity for a layer created for entity `key`: objects are
\* named by what they were created for and a serial number, the smallest one
\* no live layer of that entity has
FreeHandle(ls, kind, key) ==
  LET used == {h \in DOMAIN ls : h[1] = kind /\ h[2] = key}
  IN <<kind, key, CHOOSE n \in 1..(Cardinality(used) + 1) :
                     /\ <<kind, key, n>> \notin used
                     /\ \A m \in 1..(n - 1) : <<kind, key, m>> \in used>>

\* layers no reference and no live map holds are unreachable
Collect(ls, mref, sref, smref, maps) ==
  LET held == {mref[i] : i \in DOMAIN mref} \cup {sref[i] : i \in DOMAIN sref}
              \cup UNION {{smref[i][1], smref[i][2]} : i \in DOMAIN smref}
      keep == {h \in DOMAIN ls : h \in held \/ ls[h].map \in maps}
  IN [h \in keep |-> ls[h]]

(* ---- train markers effect, RailwayMap.tsx 198-279 ---- *)

\* a faulty variant: the registry is not consulted, every pass creates a marker
UpsertMarkerAlwaysNew(st, train, map, drag) ==
  LET h == FreeHandle(st.layers, "marker", train.id)
  IN [layers |-> st.layers @@
                   (h :> [kind |-> "marker", key |-> train.id,
                          latlngs |-> <<train.position>>,
                          color |-> statusColors[train.status],
                          map |-> map, draggable |-> drag]),
      ref |-> [id \in DOMAIN st.ref \cup {train.id} |->
                 IF id = train.id THEN h ELSE st.ref[id]]]

\* forEach body: create the marker of a train not seen before, else update it
UpsertMarker(st, train, map, drag) ==
  IF train.id \notin DOMAIN st.ref
  THEN LET h == FreeHandle(st.layers, "marker", train.id)
       IN [layers |-> st.layers @@
                        (h :> [kind |-> "marker", key |-> train.id,
                               latlngs |-> <<train.position>>,
                               color |-> statusColors[train.status],
                               map |-> map, draggable |-> drag]),
           ref |-> st.ref @@ (train.id :> h)]
  ELSE LET h == st.ref[train.id]
       IN [layers |-> [st.layers EXCEPT
                         ![h].color = statusColors[train.status],
                         ![h].latlngs = <<train.position>>,
                         ![h].draggable = drag],
           ref |-> st.ref]

RECURSIVE UpsertMarkers(_, _, _, _, _)
UpsertMarkers(i, st, list, map, drag) ==
  IF i > Len(list) THEN st
  ELSE UpsertMarkers(i + 1, UpsertMarker(st, list[i], map, drag), list, map, drag)

\* markers of trains no longer present leave the map and the registry
RemoveStaleMarkers(st, seen, map) ==
  LET gone == DOMAIN st.ref \ seen
      hs == {st.ref[id] : id \in gone}
  IN [layers |-> [h \in DOMAIN st.layers |->
                    IF h \in hs /\ st.layers[h].map = map
                    THEN [st.layers[h] EXCEPT !.map = NoMap]
                    ELSE st.layers[h]],
      ref |-> [id \in DOMAIN st.ref \ gone |-> st.ref[id]]]

\* the bounds map.fitBounds is given: the positions of all registered markers
MarkerBounds(st) == {st.layers[st.ref[id]].latlngs[1] : id \in DOMAIN st.ref}

ReconcileTrains(ls, ref, list, map, drag) ==
  RemoveStaleMarkers(UpsertMarkers(1, [layers |-> ls, ref |-> ref], list, map, drag),
                     Ids(list), map)

(* ---- segments effect, RailwayMap.tsx 107-195 ---- *)

EndpointMarker(id, pos, map) ==
  [kind |-> "endpoint", key |-> id, latlngs |-> <<pos>>, color |-> "#3b82f6",
   map |-> map, draggable |-> TRUE]

\* a faulty variant: an existing polyline is moved but keeps its old colour
UpsertSegmentStaleColor(st, seg, map, dragSeg) ==
  IF seg.id \notin DOMAIN st.ref
  THEN LET h == FreeHandle(st.layers, "polyline", seg.id)
       IN [layers |-> st.layers @@
                        (h :> [kind |-> "polyline", key |-> seg.id,
                               latlngs |-> <<seg.start, seg.end>>,
                               color |-> segmentColors[seg.status],
                               map |-> map, draggable |-> FALSE]),
           ref |-> st.ref @@ (seg.id :> h), mref |-> st.mref]
  ELSE [st EXCEPT !.layers[st.ref[seg.id]].latlngs = <<seg.start, seg.end>>]

\* forEach body: create the polyline (and its endpoint markers) or update it
UpsertSegment(st, seg, map, dragSeg) ==
  IF seg.id \notin DOMAIN st.ref
  THEN LET h == FreeHandle(st.layers, "polyline", seg.id)
           l1 == st.layers @@
                   (h :> [kind |-> "polyline", key |-> seg.id,
                          latlngs |-> <<seg.start, seg.end>>,
                          color |-> segmentColors[seg.status],
                          map |-> map, draggable |-> FALSE])
       IN IF dragSeg
          THEN LET hs == FreeHandle(l1, "endpoint-start", seg.id)
                   l2 == l1 @@ (hs :> EndpointMarker(seg.id, seg.start, map))
                   he == FreeHandle(l2, "endpoint-end", seg.id)
                   l3 == l2 @@ (he :> EndpointMarker(seg.id, seg.end, map))
               IN [layers |-> l3, ref |-> st.ref @@ (seg.id :> h),
                   mref |-> st.mref @@ (seg.id :> <<hs, he>>)]
          ELSE [layers |-> l1, ref |-> st.ref @@ (seg.id :> h), mref |-> st.mref]
  ELSE LET h == st.ref[seg.id]
           l1 == [st.layers EXCEPT ![h].latlngs = <<seg.start, seg.end>>,
                                   ![h].color = segmentColors[seg.status]]
       IN IF seg.id \in DOMAIN st.mref /\ dragSeg
          THEN [st EXCEPT !.layers =
                  [l1 EXCEPT ![st.mref[seg.id][1]].latlngs = <<seg.start>>,
                             ![st.mref[seg.id][2]].latlngs = <<seg.end>>]]
          ELSE [st EXCEPT !.layers = l1]

RECURSIVE UpsertSegments(_, _, _, _, _)
UpsertSegments(i, st, list, map, dragSeg) ==
  IF i > Len(list) THEN st
  ELSE UpsertSegments(i + 1, UpsertSegment(st, list[i], map, dragSeg), list, map, dragSeg)

\* a faulty variant: a stale polyline is dropped from the registry but left on the map
RemoveStaleSegmentsLeavesLine(st, seen, map) ==
  LET gone == DOMAIN st.ref \ seen
  IN [layers |-> st.layers,
      ref |-> [id \in DOMAIN st.ref \ gone |-> st.ref[id]],
      mref |-> [id \in DOMAIN st.mref \ gone |-> st.mref[id]]]

\* polylines of segments no longer present, and their endpoint markers, leave
RemoveStaleSegments(st, seen, map) ==
  LET gone == DOMAIN st.ref \ seen
      hs == {st.ref[id] : id \in gone}
            \cup UNION {{st.mref[id][1], st.mref[id][2]} : id \in gone \cap DOMAIN st.mref}
  IN [layers |-> [h \in DOMAIN st.layers |->
                    IF h \in hs /\ st.layers[h].map = map
                    THEN [st.layers[h] EXCEPT !.map = NoMap]
                    ELSE st.layers[h]],
      ref |-> [id \in DOMAIN st.ref \ gone |-> st.ref[id]],
      mref |-> [id \in DOMAIN st.mref \ gone |-> st.mref[id]]]

ReconcileSegments(ls, ref, mref, list, map, dragSeg) ==
  RemoveStaleSegments(
    UpsertSegments(1, [layers |-> ls, ref |-> ref, mref |-> mref], list, map, dragSeg),
    Ids(list), map)

(* ---- the effects, as functions of the component's refs ---- *)

\* the refs of the component and the Leaflet objects they reach
Comp ==
  [mapRef |-> mapRef, liveMaps |-> liveMaps, mapsCreated |-> mapsCreated,
   markersRef |-> markersRef, segmentsRef |-> segmentsRef,
   segmentMarkersRef |-> segmentMarkersRef, layers |-> layers, view |-> view]

\* RailwayMap.tsx 83: the container div is rendered unconditionally, so
\* mapContainerRef.current is set whenever an effect runs
ContainerAttached == TRUE

\* useEffect(..., []) body, RailwayMap.tsx 82-98
InitMapEffect(c) ==
  IF c.mapRef # NoMap \/ ~ContainerAttached
  THEN c
  ELSE [c EXCEPT !.mapsCreated = c.mapsCreated + 1,
                 !.mapRef = c.mapsCreated + 1,
                 !.liveMaps = c.liveMaps \cup {c.mapsCreated + 1},
                 !.view = "initial"]

\* useEffect(..., [segments]) body, RailwayMap.tsx 107-195
SegmentsEffect(c, list, dragSeg) ==
  IF c.mapRef = NoMap
  THEN c
  ELSE LET st == ReconcileSegments(c.layers, c.segmentsRef, c.segmentMarkersRef,
                                   list, c.mapRef, dragSeg)
       IN [c EXCEPT !.segmentsRef = st.ref,
                    !.segmentMarkersRef = st.mref,
                    !.layers = st.layers]

\* useEffect(..., [trains, draggableMarkers, onTrainDrag]) body, RailwayMap.tsx 198-279
TrainsEffect(c, list, drag) ==
  IF c.mapRef = NoMap
  THEN c
  ELSE LET st == ReconcileTrains(c.layers, c.markersRef, list, c.mapRef, drag)
       IN [c EXCEPT !.markersRef = st.ref,
                    !.layers = st.layers,
                    !.view = IF DOMAIN st.ref # {} THEN MarkerBounds(st) ELSE c.view]

\* a faulty variant: the map is initialised after the two passes
MountEffectsMapLast(c, tl, sl, drag, dragSeg) ==
  InitMapEffect(TrainsEffect(SegmentsEffect(c, sl, dragSeg), tl, drag))

\* the effects of the first commit run in the order the component declares them
MountEffects(c, tl, sl, drag, dragSeg) ==
  TrainsEffect(SegmentsEffect(InitMapEffect(c), sl, dragSeg), tl, drag)

\* map.remove(): Leaflet detaches every layer of the map
MapRemove(ls, map) ==
  [h \in DOMAIN ls |-> IF ls[h].map = map THEN [ls[h] EXCEPT !.map = NoMap] ELSE ls[h]]

\* the cleanup of the init effect, RailwayMap.tsx 100-103
InitMapCleanup(c) ==
  [c EXCEPT !.layers = MapRemove(c.layers, c.mapRef),
            !.liveMaps = c.liveMaps \ {c.mapRef},
            !.mapRef = NoMap]

\* the refs after a step
Install(c) ==
  /\ mapRef' = c.mapRef
  /\ liveMaps' = c.liveMaps
  /\ mapsCreated' = c.mapsCreated
  /\ markersRef' = c.markersRef
  /\ segmentsRef' = c.segmentsRef
  /\ segmentMarkersRef' = c.segmentMarkersRef
  /\ layers' = Collect(c.layers, c.markersRef, c.segmentsRef, c.segmentMarkersRef,
                       c.liveMaps)
  /\ view' = c.view

(* ---- the component's steps ---- *)

MapInit ==
  /\ phase = "rendered"
  /\ \/ trains \in MapTrainLists /\ segments = BaseSegments
     \/ trains = BaseTrains /\ segments \in MapSegmentLists
  /\ draggableMarkers \in BOOLEAN
  /\ draggableSegments \in BOOLEAN
  /\ mapRef = NoMap
  /\ liveMaps = {}
  /\ mapsCreated = 0
  /\ markersRef = EmptyRef
  /\ segmentsRef = EmptyRef
  /\ segmentMarkersRef = EmptyRef
  /\ layers = EmptyRef
  /\ view = "initial"
  /\ drags = 0
  /\ last = "render"

\* the first commit: all three effects run
Mount ==
  /\ phase = "rendered"
  /\ phase' = "mounted"
  /\ last' = "mount"
  /\ UNCHANGED <<dashVars, sandboxVars, decisionVars>>
  /\ drags' = 0
  /\ Install(MountEffects(Comp, trains, segments, draggableMarkers, draggableSegments))
  /\ UNCHANGED <<trains, segments, draggableMarkers, draggableSegments>>

\* unmount: the cleanups run
Unmount ==
  /\ phase = "mounted"
  /\ phase' = "unmounted"
  /\ last' = "unmount"
  /\ UNCHANGED <<dashVars, sandboxVars, decisionVars>>
  /\ drags' = 0
  /\ Install(InitMapCleanup(Comp))
  /\ UNCHANGED <<trains, segments, draggableMarkers, draggableSegments>>

\* the parent renders with a new trains array, draggableMarkers or onTrainDrag:
\* [trains, draggableMarkers, onTrainDrag] changed, the trains effect runs
RenderTrains ==
  /\ phase = "mounted"
  /\ segments = BaseSegments
  /\ \E list \in MapTrainLists, drag \in BOOLEAN :
       /\ trains' = list
       /\ draggableMarkers' = drag
       /\ Install(TrainsEffect(Comp, list, drag))
  /\ last' = "trains"
  /\ UNCHANGED <<dashVars, sandboxVars, decisionVars>>
  /\ drags' = 0
  /\ UNCHANGED <<phase, segments, draggableSegments>>

\* the parent renders with a new segments array: [segments] changed, the
\* segments effect runs
RenderSegments ==
  /\ phase = "mounted"
  /\ trains = BaseTrains
  /\ \E list \in MapSegmentLists :
       /\ segments' = list
       /\ Install(SegmentsEffect(Comp, list, draggableSegments))
  /\ last' = "segments"
  /\ UNCHANGED <<dashVars, sandboxVars, decisionVars>>
  /\ drags' = 0
  /\ UNCHANGED <<phase, trains, draggableMarkers, draggableSegments>>

\* the parent replaces both arrays in one render (Sandbox.resetSimulation does):
\* the segments effect runs, then the trains effect
RenderBoth ==
  /\ phase = "mounted"
  /\ trains' = BaseTrains
  /\ segments' = BaseSegments
  /\ Install(TrainsEffect(SegmentsEffect(Comp, BaseSegments, draggableSegments),
                          BaseTrains, draggableMarkers))
  /\ last' = "both"
  /\ UNCHANGED <<dashVars, sandboxVars, decisionVars>>
  /\ drags' = 0
  /\ UNCHANGED <<phase, draggableMarkers, draggableSegments>>

\* the user drags a train marker and drops it at p (Leaflet moves the marker;
\* the dragend handler of RailwayMap.tsx 246-249 only notifies the parent)
DragTrainMarker ==
  /\ phase = "mounted"
  /\ \E id \in DOMAIN markersRef, p \in Points :
       /\ layers[markersRef[id]].draggable
       /\ layers[markersRef[id]].map = mapRef
       /\ layers' = [layers EXCEPT ![markersRef[id]].latlngs = <<p>>]
  /\ last' = "drag"
  /\ UNCHANGED <<dashVars, sandboxVars, decisionVars>>
  /\ drags < MaxDrags
  /\ drags' = drags + 1
  /\ UNCHANGED <<phase, trains, segments, draggableMarkers, draggableSegments,
                 mapRef, liveMaps, mapsCreated, markersRef, segmentsRef,
                 segmentMarkersRef, view>>

\* the user drops endpoint marker k of a segment at p: updateSegment,
\* RailwayMap.tsx 153-158
DragSegmentEndpoint ==
  /\ phase = "mounted"
  /\ \E id \in DOMAIN segmentMarkersRef, k \in {1, 2}, p \in Points :
       LET ms == segmentMarkersRef[id]
           moved == [layers EXCEPT ![ms[k]].latlngs = <<p>>]
       IN /\ layers[ms[k]].map = mapRef
          /\ layers' = [moved EXCEPT ![segmentsRef[id]].latlngs =
                          <<moved[ms[1]].latlngs[1], moved[ms[2]].latlngs[1]>>]
  /\ last' = "drag"
  /\ UNCHANGED <<dashVars, sandboxVars, decisionVars>>
  /\ drags < MaxDrags
  /\ drags' = drags + 1
  /\ UNCHANGED <<phase, trains, segments, draggableMarkers, draggableSegments,
                 mapRef, liveMaps, mapsCreated, markersRef, segmentsRef,
                 segmentMarkersRef, view>>

\* the effects run again after their cleanup, in the same instance: the refs
\* (RailwayMap.tsx 60-64) are those the cleanup left, the props are the same
Remount ==
  /\ phase = "unmounted"
  /\ mapsCreated < MaxMaps
  /\ phase' = "mounted"
  /\ last' = "remount"
  /\ UNCHANGED <<dashVars, sandboxVars, decisionVars>>
  /\ drags' = 0
  /\ Install(MountEffects(Comp, trains, segments, draggableMarkers, draggableSegments))
  /\ UNCHANGED <<trains, segments, draggableMarkers, draggableSegments>>

MapNext ==
  \/ Mount
  \/ Unmount
  \/ RenderTrains
  \/ RenderSegments
  \/ RenderBoth
  \/ DragTrainMarker
  \/ DragSegmentEndpoint

(***************************************************************************)
(* Claims about RailwayMap                                                 *)
(***************************************************************************)

AfterTrainsPass == phase = "mounted" /\ last \in {"mount", "trains", "both"}

AfterSegmentsPass == phase = "mounted" /\ last \in {"mount", "segments", "both"}

\* the layers of one kind the current map shows
OnMap(kind) == {h \in DOMAIN layers : layers[h].kind = kind /\ layers[h].map = mapRef}

Registered(ref) == {ref[id] : id \in DOMAIN ref}

\* C1 (state part): after a train reconciliation pass the ids owning a marker
\* are exactly the ids of the trains prop, and the markers the map shows are
\* exactly the registered ones, one per id, each created for its id.
C1_MarkersMatch ==
  AfterTrainsPass =>
    /\ DOMAIN markersRef = Ids(trains)
    /\ OnMap("marker") = Registered(markersRef)
    /\ Cardinality(OnMap("marker")) = Cardinality(Ids(trains))
    /\ \A id \in DOMAIN markersRef : layers[markersRef[id]].key = id

\* C1 (step part): a train pass keeps the marker object of every id still
\* present, and the marker of an id no longer present is on no map afterwards.
C1_MarkersKept ==
  (phase = "mounted" /\ AfterTrainsPass') =>
    /\ \A id \in DOMAIN markersRef \cap Ids(trains') : markersRef'[id] = markersRef[id]
    /\ \A id \in DOMAIN markersRef \ Ids(trains') :
         /\ id \notin DOMAIN markersRef'
         /\ markersRef[id] \in DOMAIN layers' => layers'[markersRef[id]].map # mapRef'

\* C1: within one lifetime of the map, after every train reconciliation pass
\* the set of train ids that own a marker equals the set of ids of the trains
\* prop, with exactly one marker per id: created for a new id, kept for an id
\* still present, removed from the map and the registry for an id that left.
C1_TrainMarkersReconciled == [](C1_MarkersMatch) /\ [][C1_MarkersKept]_mapVars

\* a train pass after mount that left exactly one of the two trains on the map
C1_Witness ==
  /\ phase = "mounted" /\ last = "trains"
  /\ Cardinality(DOMAIN markersRef) = 1
  /\ OnMap("marker") = Registered(markersRef)

C2_PolylinesMatch ==
  AfterSegmentsPass =>
    /\ DOMAIN segmentsRef = Ids(segments)
    /\ OnMap("polyline") = Registered(segmentsRef)
    /\ Cardinality(OnMap("polyline")) = Cardinality(Ids(segments))
    /\ \A id \in DOMAIN segmentsRef : layers[segmentsRef[id]].key = id

C2_PolylinesRemoved ==
  (phase = "mounted" /\ AfterSegmentsPass') =>
    \A id \in DOMAIN segmentsRef \ Ids(segments') :
      /\ id \notin DOMAIN segmentsRef'
      /\ segmentsRef[id] \in DOMAIN layers' => layers'[segmentsRef[id]].map # mapRef'

\* C2: within one lifetime of the map, after every segment reconciliation pass
\* the set of segment ids that own a polyline equals the set of ids of the
\* segments prop, with exactly one polyline per id; polylines of segments no
\* longer present are removed from the map and from segmentsRef.
C2_SegmentPolylinesReconciled == [](C2_PolylinesMatch) /\ [][C2_PolylinesRemoved]_mapVars

\* a segment pass after mount that left exactly one of the two segments
C2_Witness ==
  /\ phase = "mounted" /\ last = "segments"
  /\ Cardinality(DOMAIN segmentsRef) = 1
  /\ OnMap("polyline") = Registered(segmentsRef)

\* C6: after a reconciliation pass every layer shows the current data of its
\* entity: each train marker is at the train's position with the colour of the
\* train's status, each polyline runs from the segment's start to its end with
\* the colour of the segment's status.
C6_LayersShowCurrentData ==
  /\ AfterTrainsPass =>
       \A i \in 1..Len(trains) :
         /\ trains[i].id \in DOMAIN markersRef
         /\ layers[markersRef[trains[i].id]].latlngs = <<trains[i].position>>
         /\ layers[markersRef[trains[i].id]].color = statusColors[trains[i].status]
  /\ AfterSegmentsPass =>
       \A i \in 1..Len(segments) :
         /\ segments[i].id \in DOMAIN segmentsRef
         /\ layers[segmentsRef[segments[i].id]].latlngs = <<segments[i].start, segments[i].end>>
         /\ layers[segmentsRef[segments[i].id]].color = segmentColors[segments[i].status]

\* a pass that updated an existing marker: a critical train away from point 1,
\* drawn after the first commit
C6_Witness ==
  /\ phase = "mounted" /\ last = "trains"
  /\ \E i \in 1..Len(trains) :
       /\ trains[i].status = "critical" /\ trains[i].position = 2
       /\ layers[markersRef[trains[i].id]].color = "#ef4444"

\* C10: the component owns at most one map at any time: none before the first
\* commit, exactly one L.map() call once mounted whatever the props do, the
\* map removed and mapRef null after unmount; and the first commit creates the
\* map before its two passes run, so the initial trains and segments are drawn.
C10_OneMapPerComponent ==
  /\ Cardinality(liveMaps) <= 1
  /\ phase = "rendered" => mapsCreated = 0 /\ mapRef = NoMap
  /\ phase = "mounted" => mapsCreated = 1 /\ mapRef # NoMap /\ liveMaps = {mapRef}
  /\ phase = "unmounted" => mapsCreated = 1 /\ mapRef = NoMap /\ liveMaps = {}
  /\ last = "mount" =>
       /\ DOMAIN markersRef = Ids(trains)
       /\ DOMAIN segmentsRef = Ids(segments)
       /\ \A h \in Registered(markersRef) \cup Registered(segmentsRef) :
            layers[h].map = mapRef

\* the state right after the first commit, with trains and segments drawn
C10_Witness ==
  /\ last = "mount" /\ mapRef # NoMap
  /\ Len(trains) = 2 /\ Len(segments) = 2
  /\ Cardinality(OnMap("marker")) = 2 /\ Cardinality(OnMap("polyline")) = 2

\* C11: the map view is fitted to the train markers only on first load, in
\* the first pass in which markers exist: a later train pass, run when
\* markers exist already (so the view has been fitted), leaves the view as it is.
C11_ViewFittedOnlyOnFirstLoad ==
  [][(RenderTrains \/ RenderBoth) /\ DOMAIN markersRef # {} => view' = view]_vars

\* C22: when the map of an instance was removed and is initialised again
\* while the registries survive, the passes that follow make every current
\* train marker and every current segment polyline a layer of the new map.
C22_LayersOnNewMapAfterReinit ==
  last = "remount" =>
    /\ DOMAIN markersRef = Ids(trains)
    /\ DOMAIN segmentsRef = Ids(segments)
    /\ \A h \in Registered(markersRef) \cup Registered(segmentsRef) :
         layers[h].map = mapRef

(***************************************************************************)
(* Dashboard.tsx                                                           *)
(***************************************************************************)

\* the first three trains of mockTrains (mockData.ts 57-102); position and
\* speed are in the units of the jitter: a grid step, a speed step
dashMockTrains ==
  <<[id |-> "12951", status |-> "on-time", delayMinutes |-> 0, passengers |-> 342,
     position |-> <<0, 0>>, speed |-> 1],
    [id |-> "16031", status |-> "delayed", delayMinutes |-> 12, passengers |-> 284,
     position |-> <<0, 1>>, speed |-> 1],
    [id |-> "14553", status |-> "critical", delayMinutes |-> 25, passengers |-> 156,
     position |-> <<1, 1>>, speed |-> 0]>>

\* what GET /trains/status?area=... may answer with (the backend is not part
\* of the repository): one delayed train of the area
areaTrains ==
  <<[id |-> "12951", status |-> "delayed", delayMinutes |-> 5, passengers |-> 342,
     position |-> <<0, 0>>, speed |-> 1]>>

\* (Math.random() - 0.5) * k, in steps
Jitter == {-1, 0, 1}

\* a faulty variant: a train moves whatever its speed
JitterTrainAlwaysMoves(train, dLat, dLng, dSpeed) ==
  [train EXCEPT
     !.position = <<train.position[1] + dLat, train.position[2] + dLng>>,
     !.speed = IF train.status = "critical" THEN 0 ELSE train.speed + dSpeed]

\* the mapping of one train in the interval callback, Dashboard.tsx 60-70
JitterTrain(train, dLat, dLng, dSpeed) ==
  [train EXCEPT
     !.position = IF train.speed > 0
                  THEN <<train.position[1] + dLat, train.position[2] + dLng>>
                  ELSE train.position,
     !.speed = IF train.status = "critical" THEN 0 ELSE train.speed + dSpeed]

InGrid(train) ==
  /\ train.position[1] \in 0..MaxCoord
  /\ train.position[2] \in 0..MaxCoord
  /\ train.speed \in (0 - MaxSpeed)..MaxSpeed

\* the outcomes of one tick for one train that stay within the model's grid
TickOutcomes(train) ==
  {t \in {JitterTrain(train, a, b, e) : a \in Jitter, b \in Jitter, e \in Jitter} :
     InGrid(t)}

RECURSIVE TickResults(_)
TickResults(list) ==
  IF list = <<>> THEN {<<>>}
  ELSE {<<h>> \o t : h \in TickOutcomes(Head(list)), t \in TickResults(Tail(list))}

\* Dashboard.tsx 26
displayTrains ==
  IF filteredProvided /\ Len(filteredTrains) > 0 THEN filteredTrains ELSE dashTrains

CountStatus(list, status) == Cardinality({i \in 1..Len(list) : list[i].status = status})

\* Dashboard.tsx 76-78: the KPI cards
onTimeTrains == CountStatus(dashTrains, "on-time")

delayedTrains == CountStatus(dashTrains, "delayed")

criticalTrains == CountStatus(dashTrains, "critical")

\* Dashboard.tsx 169: the trains of the Live Train list
TrainListRendered == dashTrains

\* Dashboard.tsx 153: the trains DelayTrend is given
DelayTrendTrains == dashTrains

\* Dashboard.tsx 191: the trains RailwayMap is given
MapTrainsProp == dashTrains

DashInit ==
  /\ dashTrains = dashMockTrains
  /\ filteredProvided = TRUE
  /\ filteredTrains = <<>>
  /\ selectedArea = ""
  /\ mapSelectedArea = "all"
  /\ areaRequests = <<>>

\* setInterval callback, Dashboard.tsx 59-71
Tick ==
  /\ dashTrains' \in TickResults(dashTrains)
  /\ UNCHANGED <<filteredProvided, filteredTrains, indexVars>>
  /\ UNCHANGED <<mapVars, sandboxVars, decisionVars>>

\* the parent renders the Dashboard with another filteredTrains prop
\* (Index.tsx 75-78 passes its state; the prop is optional, Dashboard.tsx 17)
SetFilteredTrains ==
  /\ \E given \in BOOLEAN, list \in {<<>>, areaTrains} :
       /\ given \/ list = <<>>
       /\ filteredProvided' = given
       /\ filteredTrains' = list
  /\ UNCHANGED <<dashTrains, indexVars>>
  /\ UNCHANGED <<mapVars, sandboxVars, decisionVars>>

DashNext ==
  \/ Tick
  \/ SetFilteredTrains

(***************************************************************************)
(* Index.tsx: the area filter                                              *)
(***************************************************************************)

\* some of the areas the selector offers (RailwayMap.tsx 66-73)
ModelAreas == {"all", "delhi", "mumbai", "chennai"}

\* what data.trains || [] is for an area (the backend is not part of the
\* repository): an answer to chennai carries no trains
AreaResponse(area) ==
  IF area = "delhi" THEN areaTrains
  ELSE IF area = "mumbai"
       THEN <<[id |-> "16031", status |-> "on-time", delayMinutes |-> 0,
               passengers |-> 284, position |-> <<0, 1>>, speed |-> 1]>>
       ELSE <<>>

\* a faulty variant: the selector's value is passed on as it is
NotifiedAreaRaw(area) == area

\* what RailwayMap.handleAreaChange gives onAreaChange, RailwayMap.tsx 78
NotifiedArea(area) == IF area = "all" THEN "" ELSE area

\* the user picks an area: RailwayMap.handleAreaChange (RailwayMap.tsx 75-80)
\* calls Index.handleAreaChange (Index.tsx 12-29) through Dashboard (195)
HandleAreaChange ==
  /\ \E area \in ModelAreas :
       /\ mapSelectedArea' = area
       /\ selectedArea' = NotifiedArea(area)
       /\ IF NotifiedArea(area) # ""
          THEN /\ Len(areaRequests) < MaxRequests
               /\ areaRequests' = Append(areaRequests, NotifiedArea(area))
               /\ UNCHANGED filteredTrains
          ELSE /\ filteredTrains' = <<>>
               /\ UNCHANGED areaRequests
  /\ UNCHANGED <<dashTrains, filteredProvided>>
  /\ UNCHANGED <<mapVars, sandboxVars, decisionVars>>

\* a request for an area is answered, Index.tsx 18-22
AreaRequestSucceeds ==
  /\ \E i \in 1..Len(areaRequests) :
       /\ filteredTrains' = AreaResponse(areaRequests[i])
       /\ areaRequests' = SubSeq(areaRequests, 1, i - 1)
                             \o SubSeq(areaRequests, i + 1, Len(areaRequests))
  /\ UNCHANGED <<dashTrains, filteredProvided, selectedArea, mapSelectedArea>>
  /\ UNCHANGED <<mapVars, sandboxVars, decisionVars>>

\* a request for an area fails, Index.tsx 23-25
AreaRequestFails ==
  /\ \E i \in 1..Len(areaRequests) :
       areaRequests' = SubSeq(areaRequests, 1, i - 1)
                         \o SubSeq(areaRequests, i + 1, Len(areaRequests))
  /\ UNCHANGED <<dashTrains, filteredProvided, filteredTrains, selectedArea,
                 mapSelectedArea>>
  /\ UNCHANGED <<mapVars, sandboxVars, decisionVars>>

IndexNext ==
  \/ HandleAreaChange
  \/ AreaRequestSucceeds
  \/ AreaRequestFails

(***************************************************************************)
(* Claims about the area filter                                            *)
(***************************************************************************)

\* C18: once every area request has settled, filteredTrains belongs to the
\* area selected last: it is the list returned for selectedArea, or empty
\* for All Areas, in whatever order the answers arrived.
C18_FilteredTrainsOfSelectedArea ==
  [][AreaRequestSucceeds /\ areaRequests' = <<>> =>
       filteredTrains' = IF selectedArea = "" THEN <<>> ELSE AreaResponse(selectedArea)]_vars

\* C19: selecting All Areas gives the parent the empty string, which empties
\* filteredTrains and sends no request; selecting another area gives the
\* parent its value and sends exactly one request, for that area; a request
\* that fails leaves filteredTrains as it is.
C19_AreaSelectionNotifiesParent ==
  [][/\ HandleAreaChange /\ mapSelectedArea' = "all" =>
          /\ selectedArea' = ""
          /\ filteredTrains' = <<>>
          /\ areaRequests' = areaRequests
     /\ HandleAreaChange /\ mapSelectedArea' # "all" =>
          /\ selectedArea' = mapSelectedArea'
          /\ areaRequests' = Append(areaRequests, mapSelectedArea')
          /\ filteredTrains' = filteredTrains
     /\ AreaRequestFails =>
          /\ filteredTrains' = filteredTrains
          /\ Len(areaRequests') = Len(areaRequests) - 1]_vars

\* All Areas selected while a request for mumbai is still in flight: the
\* list is emptied and the request left alone
C19_Witness ==
  /\ mapSelectedArea = "all"
  /\ selectedArea = ""
  /\ filteredTrains = <<>>
  /\ areaRequests = <<"mumbai">>

(***************************************************************************)
(* Claims about Dashboard                                                  *)
(***************************************************************************)

\* C3: when a non-empty filteredTrains is passed, the train list, the KPI
\* counts, the delay trend and the map markers show the filtered trains; when
\* it is absent or empty they show the internally held train list.
C3_DashboardShowsFilteredTrains ==
  LET shown == IF filteredProvided /\ Len(filteredTrains) > 0
               THEN filteredTrains ELSE dashTrains
  IN /\ TrainListRendered = shown
     /\ DelayTrendTrains = shown
     /\ MapTrainsProp = shown
     /\ onTimeTrains = CountStatus(shown, "on-time")
     /\ delayedTrains = CountStatus(shown, "delayed")
     /\ criticalTrains = CountStatus(shown, "critical")

\* a train without the two fields a tick may change
Frame(t) == [f \in DOMAIN t \ {"position", "speed"} |-> t[f]]

TickFrame ==
  /\ Len(dashTrains') = Len(dashTrains)
  /\ \A i \in 1..Len(dashTrains) :
       /\ Frame(dashTrains'[i]) = Frame(dashTrains[i])
       /\ dashTrains'[i].position # dashTrains[i].position => dashTrains[i].speed > 0
       /\ dashTrains[i].status = "critical" => dashTrains'[i].speed = 0
  /\ onTimeTrains' = onTimeTrains
  /\ delayedTrains' = delayedTrains
  /\ criticalTrains' = criticalTrains

\* C8: a simulation tick changes only position and speed of the trains: their
\* number, order, ids and other fields stay, so the KPI counts are constant; a
\* position changes only if the speed was above 0 before the tick, and a
\* critical train has speed 0 after the tick.
C8_TickChangesOnlyPositionAndSpeed == [][Tick => TickFrame]_vars

\* after some ticks: the first train has moved and then come to rest, the
\* critical train is where it was
C8_Witness ==
  /\ dashTrains[1].position # dashMockTrains[1].position
  /\ dashTrains[1].speed <= 0
  /\ dashTrains[3] = dashMockTrains[3]

(***************************************************************************)
(* Sandbox (part_000, 305-724)                                             *)
(***************************************************************************)

\* mockData.ts 57-133.  Coordinates are in 1/10000 degree, speeds in 1/100
\* km/h, times of day in minutes ("14:30" is 870).
mockTrains ==
  <<[id |-> "12951", name |-> "Mumbai Rajdhani Express", type |-> "express",
     status |-> "on-time", currentLocation |-> "New Delhi",
     destination |-> "Mumbai Central", scheduledTime |-> 870, actualTime |-> 870,
     delayMinutes |-> 0, priority |-> 10, position |-> <<286139, 772090>>,
     speed |-> 8575, passengers |-> 342],
    [id |-> "16031", name |-> "Andaman Express", type |-> "express",
     status |-> "delayed", currentLocation |-> "Ghaziabad Junction",
     destination |-> "Chennai Central", scheduledTime |-> 855, actualTime |-> 867,
     delayMinutes |-> 12, priority |-> 8, position |-> <<286692, 774538>>,
     speed |-> 7230, passengers |-> 284],
    [id |-> "14553", name |-> "Himachal Express", type |-> "local",
     status |-> "critical", currentLocation |-> "Kalka",
     destination |-> "Joginder Nagar", scheduledTime |-> 860, actualTime |-> 885,
     delayMinutes |-> 25, priority |-> 7, position |-> <<308397, 769327>>,
     speed |-> 0, passengers |-> 156],
    [id |-> "22470", name |-> "Bikaner Superfast", type |-> "express",
     status |-> "on-time", currentLocation |-> "Rewari Junction",
     destination |-> "Bikaner Junction", scheduledTime |-> 885, actualTime |-> 885,
     delayMinutes |-> 0, priority |-> 9, position |-> <<281895, 766179>>,
     speed |-> 9550, passengers |-> 298],
    [id |-> "19019", name |-> "Dehradun Express", type |-> "express",
     status |-> "delayed", currentLocation |-> "Saharanpur",
     destination |-> "Dehradun", scheduledTime |-> 900, actualTime |-> 908,
     delayMinutes |-> 8, priority |-> 6, position |-> <<299680, 775552>>,
     speed |-> 6825, passengers |-> 201]>>

\* mockData.ts 135-176
mockRailwaySegments ==
  <<[id |-> "seg-1", name |-> "Delhi-Ghaziabad Main Line",
     start |-> <<286139, 772090>>, end |-> <<286692, 774538>>,
     status |-> "occupied", maxSpeed |-> 130],
    [id |-> "seg-2", name |-> "Delhi-Rewari Section",
     start |-> <<286139, 772090>>, end |-> <<281895, 766179>>,
     status |-> "clear", maxSpeed |-> 110],
    [id |-> "seg-3", name |-> "Kalka-Shimla Heritage Line",
     start |-> <<308397, 769327>>, end |-> <<311048, 771734>>,
     status |-> "maintenance", maxSpeed |-> 25],
    [id |-> "seg-4", name |-> "Delhi-Saharanpur Route",
     start |-> <<286139, 772090>>, end |-> <<299680, 775552>>,
     status |-> "clear", maxSpeed |-> 100],
    [id |-> "seg-5", name |-> "Rewari-Bikaner Line",
     start |-> <<281895, 766179>>, end |-> <<280229, 733119>>,
     status |-> "occupied", maxSpeed |-> 110]>>

\* part_000 334-371; a modification list a scenario does not give is empty
scenarios ==
  <<[id |-> "normal",
     modifications |-> [trainDelays |-> <<>>, blockedSegments |-> <<>>,
                        priorityChanges |-> <<>>]],
    [id |-> "emergency",
     modifications |-> [trainDelays |-> <<[trainId |-> "LOC-78", delay |-> 45]>>,
                        blockedSegments |-> <<"seg-3">>,
                        priorityChanges |-> <<>>]],
    [id |-> "priority",
     modifications |-> [trainDelays |-> <<[trainId |-> "FRT-203", delay |-> 20]>>,
                        blockedSegments |-> <<>>,
                        priorityChanges |-> <<[trainId |-> "EXP-101", priority |-> 15]>>]],
    [id |-> "maintenance",
     modifications |-> [trainDelays |-> <<[trainId |-> "EXP-101", delay |-> 12],
                                          [trainId |-> "FRT-203", delay |-> 25]>>,
                        blockedSegments |-> <<"seg-1", "seg-2">>,
                        priorityChanges |-> <<>>]]>>

ScenarioIds == {scenarios[i].id : i \in 1..Len(scenarios)}

\* Array.prototype.find: the first of the matching indices, or none (0)
FindIndex(matching) ==
  IF matching = {} THEN 0
  ELSE CHOOSE i \in matching : \A j \in matching : i <= j

\* part_000 383
FindScenario(id) ==
  FindIndex({i \in 1..Len(scenarios) : scenarios[i].id = id})

\* part_000 388-413: one train under the scenario's modifications
ApplyModifications(train, mods) ==
  LET di == FindIndex({i \in 1..Len(mods.trainDelays) :
                         mods.trainDelays[i].trainId = train.id})
      pi == FindIndex({i \in 1..Len(mods.priorityChanges) :
                         mods.priorityChanges[i].trainId = train.id})
      delayed ==
        IF di = 0 THEN train
        ELSE LET delay == mods.trainDelays[di].delay
             IN [train EXCEPT
                   !.delayMinutes = delay,
                   !.status = IF delay > 30 THEN "critical"
                              ELSE IF delay > 10 THEN "delayed" ELSE "on-time",
                   !.actualTime = (train.scheduledTime + delay) % 1440]
  IN IF pi = 0 THEN delayed
     ELSE [delayed EXCEPT !.priority = mods.priorityChanges[pi].priority]

\* part_000 387-414
UpdatedTrains(scenario) ==
  [i \in 1..Len(mockTrains) |-> ApplyModifications(mockTrains[i], scenario.modifications)]

\* Array.prototype.reduce((sum, x) => sum + x, 0)
RECURSIVE Reduce(_)
Reduce(numbers) ==
  IF numbers = <<>> THEN 0 ELSE Head(numbers) + Reduce(Tail(numbers))

\* Array.prototype.filter
Filter(list, keep) ==
  LET kept == {i \in 1..Len(list) : keep[i]}
      RECURSIVE From(_)
      From(i) == IF i > Len(list) THEN <<>>
                 ELSE IF i \in kept THEN <<list[i]>> \o From(i + 1) ELSE From(i + 1)
  IN From(1)

\* a fallback that counts the passengers of every train
LocalFallbackAllPassengers(updatedTrains) ==
  LET delayed == Filter(updatedTrains,
                        [i \in 1..Len(updatedTrains) |-> updatedTrains[i].delayMinutes > 0])
      totalDelay ==
        Reduce([i \in 1..Len(updatedTrains) |-> updatedTrains[i].delayMinutes])
      affectedPassengers ==
        Reduce([i \in 1..Len(updatedTrains) |-> updatedTrains[i].passengers])
  IN [totalDelay |-> totalDelay,
      affectedTrains |-> Len(delayed),
      affectedPassengers |-> affectedPassengers,
      recommendations |->
        [reroute |-> 0,
         boarding |-> affectedPassengers,
         recovery |-> (totalDelay + 9) \div 10,
         vouchers |-> (affectedPassengers + 5) \div 10]]

\* part_000 439-454: the result computed locally when the request fails
LocalFallback(updatedTrains) ==
  LET delayed == Filter(updatedTrains,
                        [i \in 1..Len(updatedTrains) |-> updatedTrains[i].delayMinutes > 0])
      late == Filter(updatedTrains,
                     [i \in 1..Len(updatedTrains) |-> updatedTrains[i].delayMinutes > 15])
      totalDelay ==
        Reduce([i \in 1..Len(updatedTrains) |-> updatedTrains[i].delayMinutes])
      affectedPassengers ==
        Reduce([i \in 1..Len(delayed) |-> delayed[i].passengers])
  IN [totalDelay |-> totalDelay,
      affectedTrains |-> Len(delayed),
      affectedPassengers |-> affectedPassengers,
      recommendations |->
        [reroute |-> Len(late),
         boarding |-> affectedPassengers,
         recovery |-> (totalDelay + 9) \div 10,
         vouchers |-> (affectedPassengers + 5) \div 10]]

\* what POST /sandbox/evaluate may answer (the backend is not in the repository)
ResponseBodies ==
  {[totalDelay |-> 7, affectedTrains |-> 1, affectedPassengers |-> 156,
    recommendations |-> [reroute |-> 0, boarding |-> 156, recovery |-> 1, vouchers |-> 16]],
   [totalDelay |-> 0, affectedTrains |-> 0, affectedPassengers |-> 0,
    recommendations |-> [reroute |-> 0, boarding |-> 0, recovery |-> 0, vouchers |-> 0]]}

NoResults == [none |-> TRUE]

\* where the user drops what is dragged in the model
DragTrainIds == {"12951", "14553"}

DragSegmentIds == {"seg-1", "seg-3"}

DropStart == <<280000, 770000>>

DropEnd == <<290000, 780000>>

SandboxInit ==
  /\ selectedScenario = "normal"
  /\ simulationRunning = FALSE
  /\ modifiedTrains = mockTrains
  /\ modifiedSegments = mockRailwaySegments
  /\ results = NoResults
  /\ evalRequests = <<>>
  /\ resetDone = FALSE

\* <Select onValueChange={setSelectedScenario}>, part_000 569
SelectScenario ==
  /\ \E id \in ScenarioIds : selectedScenario' = id
  /\ UNCHANGED <<simulationRunning, modifiedTrains, modifiedSegments, results,
                 evalRequests, resetDone>>
  /\ UNCHANGED <<mapVars, dashVars, decisionVars>>

\* a faulty variant: the Run button is not disabled during a run
RunSimulationWhileRunning ==
  /\ simulationRunning' = TRUE
  /\ IF FindScenario(selectedScenario) = 0
     THEN UNCHANGED <<modifiedTrains, evalRequests>>
     ELSE LET updatedTrains == UpdatedTrains(scenarios[FindScenario(selectedScenario)])
          IN /\ modifiedTrains' = updatedTrains
             /\ evalRequests' = Append(evalRequests,
                                       [scenario |-> selectedScenario,
                                        modifiedTrains |-> updatedTrains,
                                        modifiedSegments |-> modifiedSegments])
  /\ resetDone' = FALSE
  /\ UNCHANGED <<selectedScenario, modifiedSegments, results>>
  /\ UNCHANGED <<mapVars, dashVars, decisionVars>>

\* runSimulation up to the fetch call, part_000 380-429; the Run button is
\* disabled while simulationRunning (part_000 533-536)
RunSimulation ==
  /\ ~simulationRunning
  /\ simulationRunning' = TRUE
  /\ IF FindScenario(selectedScenario) = 0
     THEN UNCHANGED <<modifiedTrains, evalRequests>>
     ELSE LET updatedTrains == UpdatedTrains(scenarios[FindScenario(selectedScenario)])
          IN /\ modifiedTrains' = updatedTrains
             /\ evalRequests' = Append(evalRequests,
                                       [scenario |-> selectedScenario,
                                        modifiedTrains |-> updatedTrains,
                                        modifiedSegments |-> modifiedSegments])
  /\ resetDone' = FALSE
  /\ UNCHANGED <<selectedScenario, modifiedSegments, results>>
  /\ UNCHANGED <<mapVars, dashVars, decisionVars>>

RemoveAt(list, i) == SubSeq(list, 1, i - 1) \o SubSeq(list, i + 1, Len(list))

\* the request succeeds and its body parses: .then(data => ...), part_000 431-435
EvaluateSucceeds ==
  /\ \E i \in 1..Len(evalRequests), data \in ResponseBodies :
       /\ results' = data
       /\ evalRequests' = RemoveAt(evalRequests, i)
  /\ simulationRunning' = FALSE
  /\ UNCHANGED <<selectedScenario, modifiedTrains, modifiedSegments, resetDone>>
  /\ UNCHANGED <<mapVars, dashVars, decisionVars>>

\* a faulty variant: the catch handler sets the fallback and leaves the flag
EvaluateFailsKeepsRunning ==
  /\ \E i \in 1..Len(evalRequests) :
       /\ results' = LocalFallback(evalRequests[i].modifiedTrains)
       /\ evalRequests' = RemoveAt(evalRequests, i)
  /\ UNCHANGED <<selectedScenario, simulationRunning, modifiedTrains, modifiedSegments,
                 resetDone>>
  /\ UNCHANGED <<mapVars, dashVars, decisionVars>>

\* the request fails or its body does not parse: .catch(...), part_000 436-456
EvaluateFails ==
  /\ \E i \in 1..Len(evalRequests) :
       /\ results' = LocalFallback(evalRequests[i].modifiedTrains)
       /\ evalRequests' = RemoveAt(evalRequests, i)
  /\ simulationRunning' = FALSE
  /\ UNCHANGED <<selectedScenario, modifiedTrains, modifiedSegments, resetDone>>
  /\ UNCHANGED <<mapVars, dashVars, decisionVars>>

\* part_000 459-464
ResetSimulation ==
  /\ modifiedTrains' = mockTrains
  /\ modifiedSegments' = mockRailwaySegments
  /\ results' = NoResults
  /\ selectedScenario' = "normal"
  /\ resetDone' = TRUE
  /\ UNCHANGED <<simulationRunning, evalRequests>>
  /\ UNCHANGED <<mapVars, dashVars, decisionVars>>

\* part_000 466-472
HandleTrainDrag ==
  /\ \E trainId \in DragTrainIds, newPosition \in {DropStart, DropEnd} :
       modifiedTrains' =
         [i \in 1..Len(modifiedTrains) |->
            IF modifiedTrains[i].id = trainId
            THEN [modifiedTrains[i] EXCEPT !.position = newPosition]
            ELSE modifiedTrains[i]]
  /\ UNCHANGED <<selectedScenario, simulationRunning, modifiedSegments, results,
                 evalRequests, resetDone>>
  /\ UNCHANGED <<mapVars, dashVars, decisionVars>>

\* part_000 474-480
HandleSegmentDrag ==
  /\ \E segmentId \in DragSegmentIds :
       modifiedSegments' =
         [i \in 1..Len(modifiedSegments) |->
            IF modifiedSegments[i].id = segmentId
            THEN [modifiedSegments[i] EXCEPT !.start = DropStart, !.end = DropEnd]
            ELSE modifiedSegments[i]]
  /\ UNCHANGED <<selectedScenario, simulationRunning, modifiedTrains, results,
                 evalRequests, resetDone>>
  /\ UNCHANGED <<mapVars, dashVars, decisionVars>>

SandboxNext ==
  \/ SelectScenario
  \/ RunSimulation
  \/ EvaluateSucceeds
  \/ EvaluateFails
  \/ ResetSimulation
  \/ HandleTrainDrag
  \/ HandleSegmentDrag

(***************************************************************************)
(* AIDecisions (part_000, 10-303): the accept and reject handlers          *)
(***************************************************************************)

\* mockData.ts 202-230; confidence in percent
mockDecisions ==
  <<[id |-> "dec-1", type |-> "priority",
     description |-> "Allow Express 101 to pass Freight 203 at Junction A",
     impact |-> "Saves 15 minutes for 342 passengers, delays freight by 5 minutes",
     confidence |-> 89, status |-> "pending", estimatedTimeSaving |-> 15],
    [id |-> "dec-2", type |-> "routing",
     description |-> "Reroute Local 78 via Platform 5 due to maintenance",
     impact |-> "Avoids 25-minute delay, adds 3 minutes to journey",
     confidence |-> 94, status |-> "accepted", estimatedTimeSaving |-> 22],
    [id |-> "dec-3", type |-> "scheduling",
     description |-> "Hold Express 205 for 2 minutes to coordinate with Local 78",
     impact |-> "Prevents platform conflict, optimizes passenger connections",
     confidence |-> 76, status |-> "pending", estimatedTimeSaving |-> 8]>>

\* the lists the handlers are applied to: none loaded, the mock data, and a
\* list a backend may deliver in which two decisions share an id
LoadedDecisions ==
  {<<>>, mockDecisions,
   Append(mockDecisions, [mockDecisions[1] EXCEPT !.type = "routing", !.confidence = 50])}

\* the ids the handlers are called with; "dec-0" is the id of no decision
HandlerIds == {"dec-0", "dec-1", "dec-2", "dec-3"}

\* a faulty variant: accepting also resets the estimated time saving
HandleAcceptDecisionDropsFields(prev, id) ==
  [i \in 1..Len(prev) |->
     IF prev[i].id = id
     THEN [prev[i] EXCEPT !.status = "accepted", !.estimatedTimeSaving = 0]
     ELSE prev[i]]

\* the updater of handleAcceptDecision, part_000 63-67
HandleAcceptDecision(prev, id) ==
  [i \in 1..Len(prev) |->
     IF prev[i].id = id THEN [prev[i] EXCEPT !.status = "accepted"] ELSE prev[i]]

\* the updater of handleRejectDecision, part_000 69-73
HandleRejectDecision(prev, id) ==
  [i \in 1..Len(prev) |->
     IF prev[i].id = id THEN [prev[i] EXCEPT !.status = "rejected"] ELSE prev[i]]

NoCall == [op |-> "none"]

\* the page as the handler calls find it: loaded, nothing in flight
PageAtRest ==
  /\ page = "decisions"
  /\ predictions = <<>>
  /\ loading = FALSE
  /\ fetchPending = FALSE
  /\ live = EmptyRef
  /\ loaded = <<>>
  /\ rejectDialogOpen = FALSE
  /\ selectedDecisionId = ""
  /\ rejectionReason = ""

DecisionInit ==
  /\ decisions \in LoadedDecisions
  /\ lastCall = NoCall
  /\ PageAtRest

\* handleAcceptDecision(id), part_000 63-67
AcceptDecision ==
  /\ \E id \in HandlerIds :
       /\ decisions' = HandleAcceptDecision(decisions, id)
       /\ lastCall' = [op |-> "accept", id |-> id, prev |-> decisions]
  /\ UNCHANGED <<mapVars, dashVars, sandboxVars, pageVars>>

\* handleRejectDecision(id), part_000 69-73
RejectDecision ==
  /\ \E id \in HandlerIds :
       /\ decisions' = HandleRejectDecision(decisions, id)
       /\ lastCall' = [op |-> "reject", id |-> id, prev |-> decisions]
  /\ UNCHANGED <<mapVars, dashVars, sandboxVars, pageVars>>

DecisionNext ==
  \/ AcceptDecision
  \/ RejectDecision

(***************************************************************************)
(* The AI Decisions and ML Predictions pages: initial fetch and WebSocket  *)
(* (part_000 10-61, mockData.ts 278-328)                                   *)
(***************************************************************************)

\* mockData.ts 178-200; confidence in percent
mockPredictions ==
  <<[trainId |-> "EXP-101", predictedDelay |-> 3, confidence |-> 92,
     factors |-> <<"Weather conditions", "Traffic density">>,
     recommendation |-> "Maintain current schedule"],
    [trainId |-> "FRT-203", predictedDelay |-> 18, confidence |-> 87,
     factors |-> <<"Signal delay", "Track congestion", "Priority conflicts">>,
     recommendation |-> "Reroute via Loop B to reduce delay to 8 minutes"],
    [trainId |-> "LOC-78", predictedDelay |-> 35, confidence |-> 95,
     factors |-> <<"Mechanical issue", "Platform availability">>,
     recommendation |-> "Emergency maintenance required - hold at current position"]>>

Pages == {"decisions", "predictions"}

\* the field findIndex compares: d.id === update.id, p.trainId === update.trainId
KeyOf(pg) == IF pg = "decisions" THEN "id" ELSE "trainId"

\* the mock data the catch handler falls back to
MockOf(pg) == IF pg = "decisions" THEN mockDecisions ELSE mockPredictions

\* the list state of the page shown
List == IF page = "decisions" THEN decisions ELSE predictions

\* setDecisions / setPredictions of the page shown
SetList(new) ==
  IF page = "decisions"
  THEN decisions' = new /\ UNCHANGED predictions
  ELSE predictions' = new /\ UNCHANGED decisions

\* what data.decisions || [] and data.predictions || [] may be (the backend is
\* not in the repository): nothing, two entries, two entries with one key
FetchedLists(pg) ==
  LET mock == MockOf(pg)
  IN {<<>>, SubSeq(mock, 1, 2), <<mock[1], [mock[1] EXCEPT !.confidence = 50]>>}

\* the messages the socket may deliver: partial updates of a known entry and
\* a complete new entry
Updates(pg) ==
  IF pg = "decisions"
  THEN {[id |-> "dec-1", status |-> "accepted"],
        [id |-> "dec-1", status |-> "pending", confidence |-> 50],
        [id |-> "dec-4", type |-> "routing", description |-> "Reroute Freight 203",
         impact |-> "Clears Junction A", confidence |-> 81, status |-> "pending",
         estimatedTimeSaving |-> 10]}
  ELSE {[trainId |-> "EXP-101", predictedDelay |-> 9],
        [trainId |-> "EXP-101", predictedDelay |-> 3, confidence |-> 60],
        [trainId |-> "12951", predictedDelay |-> 5, confidence |-> 70,
         factors |-> <<"Signal delay">>, recommendation |-> "Monitor"]}

\* { ...old, ...update }
Merge(old, update) ==
  [f \in DOMAIN old \cup DOMAIN update |->
     IF f \in DOMAIN update THEN update[f] ELSE old[f]]

\* a faulty variant: every update is appended
UpsertAlwaysAppends(prev, update, key) == Append(prev, update)

\* the updater of socket.onmessage, part_000 42-53 and mockData.ts 309-320
Upsert(prev, update, key) ==
  LET existingIndex == FindIndex({i \in 1..Len(prev) : prev[i][key] = update[key]})
  IN IF existingIndex # 0
     THEN [prev EXCEPT ![existingIndex] = Merge(prev[existingIndex], update)]
     ELSE Append(prev, update)

\* the page mounts: both effects run, the request is sent, the socket opened
PageInit ==
  /\ page \in Pages
  /\ decisions = <<>>
  /\ predictions = <<>>
  /\ loading = TRUE
  /\ fetchPending = TRUE
  /\ live = EmptyRef
  /\ loaded = <<>>
  /\ rejectDialogOpen = FALSE
  /\ selectedDecisionId = ""
  /\ rejectionReason = ""
  /\ lastCall = NoCall

\* the initial request is answered, part_000 17-22 and mockData.ts 284-289
FetchSucceeds ==
  /\ fetchPending
  /\ \E data \in FetchedLists(page) :
       /\ SetList(data)
       /\ loaded' = data
  /\ loading' = FALSE
  /\ fetchPending' = FALSE
  /\ UNCHANGED <<page, live, lastCall, dialogVars>>
  /\ UNCHANGED <<mapVars, dashVars, sandboxVars>>

\* a faulty variant: the catch handler leaves the spinner on
FetchFailsKeepsLoading ==
  /\ fetchPending
  /\ SetList(MockOf(page))
  /\ loaded' = MockOf(page)
  /\ fetchPending' = FALSE
  /\ UNCHANGED <<page, loading, live, lastCall, dialogVars>>
  /\ UNCHANGED <<mapVars, dashVars, sandboxVars>>

\* the initial request fails, or its body is no JSON, or reading the body
\* throws: part_000 23-27 and mockData.ts 290-294
FetchFails ==
  /\ fetchPending
  /\ SetList(MockOf(page))
  /\ loaded' = MockOf(page)
  /\ loading' = FALSE
  /\ fetchPending' = FALSE
  /\ UNCHANGED <<page, live, lastCall, dialogVars>>
  /\ UNCHANGED <<mapVars, dashVars, sandboxVars>>

\* socket.onmessage, part_000 38-54 and mockData.ts 305-321
SocketMessage ==
  /\ \E update \in Updates(page) :
       LET k == update[KeyOf(page)]
       IN /\ SetList(Upsert(List, update, KeyOf(page)))
          /\ live' = [x \in DOMAIN live \cup {k} |-> IF x = k THEN update ELSE live[x]]
          /\ lastCall' = [op |-> "update", update |-> update]
  /\ UNCHANGED <<page, loading, fetchPending, loaded, dialogVars>>
  /\ UNCHANGED <<mapVars, dashVars, sandboxVars>>

\* the decisions DecisionPanel offers Accept and Reject for (part_001 26, 38;
\* part_002 54, 66): the pending ones, once the list is shown (part_000
\* 190-200) and while the modal rejection dialog is closed (part_002 173)
Offered ==
  IF page = "decisions" /\ ~loading /\ ~rejectDialogOpen
  THEN {i \in 1..Len(decisions) : decisions[i].status = "pending"}
  ELSE {}

\* the user clicks Accept of an offered decision, part_001 71
ClickAccept ==
  /\ \E i \in Offered :
       LET id == decisions[i].id
       IN /\ decisions' = HandleAcceptDecision(decisions, id)
          /\ live' = [x \in DOMAIN live \ {id} |-> live[x]]
          /\ lastCall' = [op |-> "accept", id |-> id]
  /\ UNCHANGED <<page, predictions, loading, fetchPending, loaded, dialogVars>>
  /\ UNCHANGED <<mapVars, dashVars, sandboxVars>>

\* the user clicks Reject of an offered decision, part_001 80
ClickReject ==
  /\ \E i \in Offered :
       LET id == decisions[i].id
       IN /\ decisions' = HandleRejectDecision(decisions, id)
          /\ live' = [x \in DOMAIN live \ {id} |-> live[x]]
          /\ lastCall' = [op |-> "reject", id |-> id]
  /\ UNCHANGED <<page, predictions, loading, fetchPending, loaded, dialogVars>>
  /\ UNCHANGED <<mapVars, dashVars, sandboxVars>>

\* the reasons the dialog's Select offers in the model (part_002 33-38)
RejectionReasons == {"safety", "other"}

\* the user clicks Reject in the panel with the dialog: handleRejectClick,
\* part_002 40-43 and 108
HandleRejectClick ==
  /\ \E i \in Offered :
       /\ selectedDecisionId' = decisions[i].id
       /\ rejectDialogOpen' = TRUE
  /\ UNCHANGED <<decisions, lastCall, page, predictions, loading, fetchPending,
                 live, loaded, rejectionReason>>
  /\ UNCHANGED <<mapVars, dashVars, sandboxVars>>

\* <Select onValueChange={setRejectionReason}> in the dialog, part_002 184
SelectRejectionReason ==
  /\ rejectDialogOpen
  /\ \E reason \in RejectionReasons : rejectionReason' = reason
  /\ UNCHANGED <<decisions, lastCall, page, predictions, loading, fetchPending,
                 live, loaded, rejectDialogOpen, selectedDecisionId>>
  /\ UNCHANGED <<mapVars, dashVars, sandboxVars>>

\* Cancel, or the dialog's onOpenChange(false): part_002 173, 199
CancelReject ==
  /\ rejectDialogOpen
  /\ rejectDialogOpen' = FALSE
  /\ UNCHANGED <<decisions, lastCall, page, predictions, loading, fetchPending,
                 live, loaded, selectedDecisionId, rejectionReason>>
  /\ UNCHANGED <<mapVars, dashVars, sandboxVars>>

\* Confirm Rejection, enabled once a reason is chosen (part_002 204-206):
\* handleRejectConfirm, part_002 45-52, calls handleRejectDecision
HandleRejectConfirm ==
  /\ rejectDialogOpen
  /\ rejectionReason # ""
  /\ selectedDecisionId # ""
  /\ decisions' = HandleRejectDecision(decisions, selectedDecisionId)
  /\ live' = [x \in DOMAIN live \ {selectedDecisionId} |-> live[x]]
  /\ lastCall' = [op |-> "reject", id |-> selectedDecisionId]
  /\ rejectDialogOpen' = FALSE
  /\ selectedDecisionId' = ""
  /\ rejectionReason' = ""
  /\ UNCHANGED <<page, predictions, loading, fetchPending, loaded>>
  /\ UNCHANGED <<mapVars, dashVars, sandboxVars>>

PageNext ==
  \/ FetchSucceeds
  \/ FetchFails
  \/ SocketMessage
  \/ ClickAccept
  \/ ClickReject
  \/ HandleRejectClick
  \/ SelectRejectionReason
  \/ CancelReject
  \/ HandleRejectConfirm

(***************************************************************************)
(* Claims about Sandbox                                                    *)
(***************************************************************************)

SelectedModifications == scenarios[FindScenario(selectedScenario)].modifications

\* every train modification of mods is visible in list
TrainModificationsIn(list, mods) ==
  /\ \A k \in 1..Len(mods.trainDelays) :
       \E i \in 1..Len(list) :
         /\ list[i].id = mods.trainDelays[k].trainId
         /\ list[i].delayMinutes = mods.trainDelays[k].delay
  /\ \A k \in 1..Len(mods.priorityChanges) :
       \E i \in 1..Len(list) :
         /\ list[i].id = mods.priorityChanges[k].trainId
         /\ list[i].priority = mods.priorityChanges[k].priority

\* every segment mods blocks has status blocked in list
BlockedSegmentsIn(list, mods) ==
  \A k \in 1..Len(mods.blockedSegments) :
    \A i \in 1..Len(list) :
      list[i].id = mods.blockedSegments[k] => list[i].status = "blocked"

\* C4: runSimulation applies the train modifications of the selected scenario:
\* afterwards modifiedTrains has, for every {trainId, delay}, a train with
\* that id and that delayMinutes, and for every {trainId, priority} a train
\* with that id and that priority.
C4_TrainModificationsApplied ==
  [][RunSimulation => TrainModificationsIn(modifiedTrains', SelectedModifications)]_vars

\* C5: runSimulation applies the segment modifications of the selected
\* scenario: afterwards every segment listed in blockedSegments has status
\* blocked in modifiedSegments and in the payload sent for evaluation.
C5_BlockedSegmentsApplied ==
  [][RunSimulation =>
       /\ BlockedSegmentsIn(modifiedSegments', SelectedModifications)
       /\ \A i \in 1..Len(evalRequests') :
            BlockedSegmentsIn(evalRequests'[i].modifiedSegments, SelectedModifications)]_vars

\* the sums of the claim, over the indices of a list
RECURSIVE SumOfDelays(_, _)
SumOfDelays(list, n) ==
  IF n = 0 THEN 0 ELSE list[n].delayMinutes + SumOfDelays(list, n - 1)

RECURSIVE SumOfDelayedPassengers(_, _)
SumOfDelayedPassengers(list, n) ==
  IF n = 0 THEN 0
  ELSE (IF list[n].delayMinutes > 0 THEN list[n].passengers ELSE 0)
       + SumOfDelayedPassengers(list, n - 1)

\* the request a settling step answers: the one in flight
SettledRequest == evalRequests[1]

\* C9: runSimulation sends the selected scenario with the updated trains for
\* evaluation, and when the request settles results is set: to the response
\* body on success, and on failure to the local fallback, whose totalDelay is
\* the sum of delayMinutes of the updated trains, affectedTrains the number of
\* updated trains with delayMinutes > 0 and affectedPassengers the sum of the
\* passengers of those trains.
C9_ResultsSetWhenRequestSettles ==
  [][/\ RunSimulation =>
          /\ Len(evalRequests') = 1
          /\ evalRequests'[1].scenario = selectedScenario
          /\ evalRequests'[1].modifiedTrains = modifiedTrains'
     /\ EvaluateSucceeds => results' \in ResponseBodies /\ evalRequests' = <<>>
     /\ EvaluateFails =>
          LET updated == SettledRequest.modifiedTrains
          IN /\ evalRequests' = <<>>
             /\ results'.totalDelay = SumOfDelays(updated, Len(updated))
             /\ results'.affectedTrains =
                  Cardinality({i \in 1..Len(updated) : updated[i].delayMinutes > 0})
             /\ results'.affectedPassengers =
                  SumOfDelayedPassengers(updated, Len(updated))]_vars

\* a run whose request failed: the fallback over the five mock trains
C9_Witness ==
  /\ evalRequests = <<>> /\ ~simulationRunning
  /\ results # NoResults
  /\ results.totalDelay = 45 /\ results.affectedTrains = 3
  /\ results.affectedPassengers = 641

\* C12: what the user dragged is part of the scenario runSimulation
\* evaluates: after runSimulation every train of modifiedTrains, and of the
\* payload, has the position it had before (the one handleTrainDrag set last),
\* and every segment of the payload has the endpoints handleSegmentDrag set.
C12_DraggedPositionsEvaluated ==
  [][RunSimulation =>
       LET sent == evalRequests'[Len(evalRequests')]
       IN /\ \A i \in 1..Len(modifiedTrains) :
               /\ modifiedTrains'[i].position = modifiedTrains[i].position
               /\ sent.modifiedTrains[i].position = modifiedTrains[i].position
          /\ \A i \in 1..Len(modifiedSegments) :
               /\ sent.modifiedSegments[i].start = modifiedSegments[i].start
               /\ sent.modifiedSegments[i].end = modifiedSegments[i].end]_vars

\* C13: after every runSimulation, whatever the scenario, simulationRunning
\* becomes false again once the evaluation request has settled, by success or
\* by failure; it never stays true forever.
C13_SimulationRunningEnds ==
  \A id \in ScenarioIds :
    (simulationRunning /\ evalRequests # <<>> /\ evalRequests[1].scenario = id)
      ~> ~simulationRunning

\* a run of the maintenance scenario whose request has been answered
C13_Witness ==
  /\ ~simulationRunning
  /\ evalRequests = <<>>
  /\ selectedScenario = "maintenance"
  /\ results \in ResponseBodies

\* the state the Sandbox page starts in (part_000 374-378)
SandboxInitialData ==
  /\ modifiedTrains = mockTrains
  /\ modifiedSegments = mockRailwaySegments
  /\ selectedScenario = "normal"
  /\ results = NoResults

\* C14: resetSimulation puts the sandbox back in its initial state, and no
\* request that settles afterwards takes it out of that state before the next
\* runSimulation is started, even if the request was in flight at the reset.
C14_ResetStateStays ==
  [][/\ ResetSimulation => SandboxInitialData'
     /\ (EvaluateSucceeds \/ EvaluateFails) /\ resetDone /\ SandboxInitialData
          => SandboxInitialData']_vars

\* C15: at most one evaluation request is outstanding at any time: a run is
\* started only while simulationRunning is false, and simulationRunning is
\* true exactly from the start of a run until its request settles.
C15_OneOutstandingRequest ==
  /\ Len(evalRequests) <= 1
  /\ simulationRunning <=> evalRequests # <<>>

\* a request in flight while the page has been reset: Run is still disabled
C15_Witness ==
  /\ Len(evalRequests) = 1
  /\ simulationRunning
  /\ resetDone
  /\ ~ENABLED RunSimulation

(***************************************************************************)
(* Claims about the AI Decisions and ML Predictions pages                  *)
(***************************************************************************)

\* entry carries every field of update
Carries(entry, update) ==
  \A f \in DOMAIN update : f \in DOMAIN entry /\ entry[f] = update[f]

\* C16: an update the WebSocket delivered is never lost: as long as no later
\* update for its key and no user action on its entry replaced it, the list
\* has an entry with the update's key carrying the update's fields, whether
\* the initial request had completed when it arrived or not.
C16_SocketUpdatesKept ==
  \A k \in DOMAIN live :
    \E i \in 1..Len(List) : List[i][KeyOf(page)] = k /\ Carries(List[i], live[k])

UniqueKeys(list, key) ==
  \A i, j \in 1..Len(list) : list[i][key] = list[j][key] => i = j

\* new is prev with update upserted by key: merged into the first entry with
\* the key, at its index, or appended at the end
IsUpsert(prev, update, key, new) ==
  LET matches == {i \in 1..Len(prev) : prev[i][key] = update[key]}
  IN IF matches # {}
     THEN /\ Len(new) = Len(prev)
          /\ \E i \in matches :
               /\ \A j \in matches : i <= j
               /\ DOMAIN new[i] = DOMAIN prev[i] \cup DOMAIN update
               /\ Carries(new[i], update)
               /\ \A f \in DOMAIN prev[i] \ DOMAIN update : new[i][f] = prev[i][f]
               /\ \A j \in 1..Len(prev) : j # i => new[j] = prev[j]
     ELSE /\ Len(new) = Len(prev) + 1
          /\ new[Len(new)] = update
          /\ \A j \in 1..Len(prev) : new[j] = prev[j]

\* C17: applying a WebSocket update is an upsert by key (id, trainId): an
\* entry with the key is merged in place and the length stays, otherwise the
\* update is appended; so no two entries share a key after any updates,
\* accepts and rejects, if the list the initial request loaded had unique keys.
C17_UpdateIsUpsert ==
  /\ [](UniqueKeys(loaded, KeyOf(page)) => UniqueKeys(List, KeyOf(page)))
  /\ [][SocketMessage => IsUpsert(List, lastCall'.update, KeyOf(page), List')]_vars

\* the predictions page after a merge into EXP-101 and an append of 12951
C17_Witness ==
  /\ page = "predictions"
  /\ ~fetchPending
  /\ Len(predictions) = 3
  /\ predictions[1].trainId = "EXP-101" /\ predictions[1].predictedDelay = 9
  /\ predictions[3].trainId = "12951"
  /\ UniqueKeys(loaded, "trainId") /\ UniqueKeys(predictions, "trainId")

\* C20: when the initial request of the page fails, the list is set to the
\* mock data and loading becomes false; loading is false after either outcome
\* of the request and never becomes true again.
C20_LoadingEnds ==
  /\ [](~fetchPending => ~loading)
  /\ [][/\ FetchFails => List' = MockOf(page) /\ ~loading'
        /\ FetchSucceeds => ~loading'
        /\ ~loading => ~loading']_vars

\* the predictions page showing the mock data after a failed request, with
\* a later update merged
C20_Witness ==
  /\ page = "predictions"
  /\ ~loading /\ ~fetchPending
  /\ loaded = mockPredictions
  /\ Len(predictions) = 3
  /\ predictions[1].predictedDelay = 9

\* a step in which the user accepts or rejects a decision
UserDecides == ClickAccept \/ ClickReject \/ HandleRejectConfirm

\* C21: a user accept or reject changes only decisions that are pending when
\* their status is changed: a decision that is accepted or rejected is left
\* as it is by every user action, however the user's actions interleave with
\* WebSocket updates (stated for lists in which no two decisions share an id).
C21_UserChangesOnlyPending ==
  [][UserDecides /\ UniqueKeys(decisions, "id") =>
       \A i \in 1..Len(decisions) :
         decisions[i].status # "pending" => decisions'[i] = decisions[i]]_vars

(***************************************************************************)
(* Claims about the decision handlers                                      *)
(***************************************************************************)

\* C7: handleAcceptDecision(id) and handleRejectDecision(id) change only the
\* status of the decisions with that id, to accepted resp. rejected: number
\* and order of the decisions, every other decision and every other field of
\* a matching decision stay, and nothing changes when no decision has the id.
C7_HandlersChangeOnlyStatus ==
  lastCall.op # "none" =>
    LET prev == lastCall.prev
        newStatus == IF lastCall.op = "accept" THEN "accepted" ELSE "rejected"
    IN /\ Len(decisions) = Len(prev)
       /\ \A i \in 1..Len(prev) :
            /\ DOMAIN decisions[i] = DOMAIN prev[i]
            /\ \A f \in DOMAIN prev[i] \ {"status"} : decisions[i][f] = prev[i][f]
            /\ decisions[i].status =
                 IF prev[i].id = lastCall.id THEN newStatus ELSE prev[i].status
       /\ (\A i \in 1..Len(prev) : prev[i].id # lastCall.id) => decisions = prev

\* handleRejectDecision("dec-3") on a list in which dec-3 was pending
C7_Witness ==
  /\ lastCall.op = "reject" /\ lastCall.id = "dec-3"
  /\ Len(decisions) = 3
  /\ lastCall.prev[3].status = "pending"
  /\ decisions[3].status = "rejected"

(***************************************************************************)
(* The specifications                                                      *)
(***************************************************************************)

\* a component that is not exercised rests in one state
MapIdle ==
  /\ phase = "unmounted"
  /\ trains = <<>>
  /\ segments = <<>>
  /\ draggableMarkers = FALSE
  /\ draggableSegments = FALSE
  /\ mapRef = NoMap
  /\ liveMaps = {}
  /\ mapsCreated = 0
  /\ markersRef = EmptyRef
  /\ segmentsRef = EmptyRef
  /\ segmentMarkersRef = EmptyRef
  /\ layers = EmptyRef
  /\ view = "initial"
  /\ drags = 0
  /\ last = "render"

DecisionIdle ==
  /\ decisions = <<>>
  /\ lastCall = NoCall
  /\ PageAtRest

InitMap == MapInit /\ DashInit /\ SandboxInit /\ DecisionIdle

SpecMap == InitMap /\ [][MapNext]_vars

InitDashboard == MapIdle /\ DashInit /\ SandboxInit /\ DecisionIdle

SpecDashboard == InitDashboard /\ [][DashNext]_vars

InitSandbox == MapIdle /\ DashInit /\ SandboxInit /\ DecisionIdle

SpecSandbox == InitSandbox /\ [][SandboxNext]_vars

InitDecisionHandlers == MapIdle /\ DashInit /\ SandboxInit /\ DecisionInit

SpecDecisionHandlers == InitDecisionHandlers /\ [][DecisionNext]_vars

\* every request the browser sends is answered or fails in the end
SpecSandboxFair ==
  InitSandbox /\ [][SandboxNext]_vars /\ WF_vars(EvaluateSucceeds \/ EvaluateFails)

InitPages == MapIdle /\ DashInit /\ SandboxInit /\ PageInit

SpecPages == InitPages /\ [][PageNext]_vars

InitIndex == MapIdle /\ DashInit /\ SandboxInit /\ DecisionIdle

SpecIndex == InitIndex /\ [][IndexNext]_vars

\* RailwayMap with its effects run again after an unmount
MapRemountNext == MapNext \/ Remount

SpecMapRemount == InitMap /\ [][MapRemountNext]_vars

====
